---- MODULE Spec2Model ----
(***************************************************************************)
(* Verification model of the interactive Voronoi diagram generator.        *)
(*                                                                         *)
(*  - The page script (the DOMContentLoaded closure): its state variables, *)
(*    the DOM controls it reads and writes, one action per event handler,  *)
(*    and the first-order / higher-order sampling classifiers.             *)
(*  - The core library (voronoi-core.js): calculateDistance and the point  *)
(*    generators, as operators over exact arithmetic.                      *)
(*                                                                         *)
(* Coordinates are carried in fixed point: one unit is 1/SubPx of a pixel, *)
(* so that the 15 % / 10 % margins and the grid steps of the generators    *)
(* are whole numbers.  Every metric of the page script is homogeneous of   *)
(* degree 1, so distances scale by SubPx and their order is unchanged.     *)
(***************************************************************************)
EXTENDS Bags, FiniteSets, Integers, Sequences, TLC

(***************************************************************************)
(* Bounds of the model.                                                    *)
(***************************************************************************)
\* canvas clicks are accepted while the site list is shorter than this
MaxSites == 3
\* number of distinct outcomes of the random source that are explored
MaxSeed == 1

SubPx == 2 * 3 * 5

(***************************************************************************)
(* JavaScript numbers as far as the script needs them: a number is either  *)
(* NaN or an integer.                                                      *)
(***************************************************************************)
NaN == [nan |-> TRUE, v |-> 0]
Num(n) == [nan |-> FALSE, v |-> n]

\* a > b, a === b on JavaScript numbers (false whenever NaN is involved)
JsGt(a, b) == ~a.nan /\ ~b.nan /\ a.v > b.v
JsGe(a, b) == ~a.nan /\ ~b.nan /\ a.v >= b.v
JsStrictEq(a, b) == ~a.nan /\ ~b.nan /\ a.v = b.v

Abs(n) == IF n < 0 THEN -n ELSE n
Min(a, b) == IF a < b THEN a ELSE b
Max(a, b) == IF a > b THEN a ELSE b

RECURSIVE Pow(_, _)
Pow(b, e) == IF e = 0 THEN 1 ELSE b * Pow(b, e - 1)

(***************************************************************************)
(* Exact arithmetic for the library's distance function.  Its 'hilbert'    *)
(* case mixes pixel coordinates with the constants 0.000001, 0.01 and      *)
(* 100000, so the values are kept as fractions of whole numbers of any     *)
(* size: a whole number is the sequence of its digits in base Base, least  *)
(* significant first and without leading zeros; a fraction is a sign s in  *)
(* {-1, 0, 1} with a numerator n and a denominator d > 0.                  *)
(***************************************************************************)
Base == 10 * 10 * 10

RECURSIVE NatOf(_)
NatOf(n) == IF n = 0 THEN <<>> ELSE <<n % Base>> \o NatOf(n \div Base)

\* the sum of the numbers f[i]
SumOf(f) == BagCardinality([i \in {j \in DOMAIN f : f[j] > 0} |-> f[i]])

\* a without its leading zeros
Strip(a) ==
    LET used == {i \in DOMAIN a : a[i] # 0}
    IN  IF used = {} THEN <<>>
        ELSE SubSeq(a, 1, CHOOSE i \in used : \A j \in used : j <= i)

\* c holds digits below 0 or above Base - 1: each digit hands its excess to
\* the next one until none is left (the number c stands for is >= 0 and fits
\* into Len(c) digits)
RECURSIVE Carry(_)
Carry(c) ==
    IF \A i \in DOMAIN c : c[i] >= 0 /\ c[i] < Base THEN c
    ELSE Carry([i \in DOMAIN c |->
                   (c[i] % Base) + (IF i = 1 THEN 0 ELSE c[i - 1] \div Base)])

DigitAt(a, i) == IF i \in DOMAIN a THEN a[i] ELSE 0

NatAdd(a, b) ==
    Strip(Carry([i \in 1..(Max(Len(a), Len(b)) + 1) |-> DigitAt(a, i) + DigitAt(b, i)]))

\* a - b for a >= b
NatSub(a, b) == Strip(Carry([i \in 1..Len(a) |-> a[i] - DigitAt(b, i)]))

\* -1, 0, 1 as a is below, equal to, above b
NatCmp(a, b) ==
    IF Len(a) < Len(b) THEN -1
    ELSE IF Len(a) > Len(b) THEN 1
    ELSE LET differ == {i \in DOMAIN a : a[i] # b[i]}
         IN  IF differ = {} THEN 0
             ELSE LET top == CHOOSE i \in differ : \A j \in differ : j <= i
                  IN  IF a[top] < b[top] THEN -1 ELSE 1

NatMul(a, b) ==
    IF a = <<>> \/ b = <<>> THEN <<>>
    ELSE Strip(Carry([k \in 1..(Len(a) + Len(b)) |->
                        SumOf([i \in {j \in DOMAIN a : (k - j + 1) \in DOMAIN b} |->
                                  a[i] * b[k - i + 1]])]))

Sign(i) == IF i < 0 THEN -1 ELSE IF i > 0 THEN 1 ELSE 0

\* the fraction a / b of two integers, b > 0
Frac(a, b) == [s |-> Sign(a), n |-> NatOf(Abs(a)), d |-> NatOf(b)]
Rat(i) == Frac(i, 1)

RatNeg(a) == [a EXCEPT !.s = -a.s]
RatAbs(a) == [a EXCEPT !.s = IF a.s = 0 THEN 0 ELSE 1]

\* sign and size of s1 * m1 + s2 * m2
SignedSum(s1, m1, s2, m2) ==
    IF s1 = 0 THEN [s |-> s2, n |-> m2]
    ELSE IF s2 = 0 THEN [s |-> s1, n |-> m1]
    ELSE IF s1 = s2 THEN [s |-> s1, n |-> NatAdd(m1, m2)]
    ELSE LET c == NatCmp(m1, m2)
         IN  IF c = 0 THEN [s |-> 0, n |-> <<>>]
             ELSE IF c > 0 THEN [s |-> s1, n |-> NatSub(m1, m2)]
             ELSE [s |-> s2, n |-> NatSub(m2, m1)]

RatAdd(a, b) ==
    IF a.d = b.d
    THEN LET r == SignedSum(a.s, a.n, b.s, b.n)
         IN  [s |-> r.s, n |-> r.n, d |-> a.d]
    ELSE LET r == SignedSum(a.s, NatMul(a.n, b.d), b.s, NatMul(b.n, a.d))
         IN  [s |-> r.s, n |-> r.n, d |-> NatMul(a.d, b.d)]

RatSub(a, b) == RatAdd(a, RatNeg(b))

RatMul(a, b) ==
    IF a.s = 0 \/ b.s = 0 THEN Rat(0)
    ELSE [s |-> a.s * b.s, n |-> NatMul(a.n, b.n), d |-> NatMul(a.d, b.d)]

\* a / b for b # 0
RatDiv(a, b) ==
    IF a.s = 0 THEN Rat(0)
    ELSE [s |-> a.s * b.s, n |-> NatMul(a.n, b.d), d |-> NatMul(a.d, b.n)]

\* -1, 0, 1 as a is below, equal to, above b
RatCmp(a, b) ==
    IF a.s # b.s THEN (IF a.s < b.s THEN -1 ELSE 1)
    ELSE IF a.s = 0 THEN 0
    ELSE a.s * (IF a.d = b.d THEN NatCmp(a.n, b.n)
                ELSE NatCmp(NatMul(a.n, b.d), NatMul(b.n, a.d)))

RatLess(a, b) == RatCmp(a, b) < 0
RatLeq(a, b) == RatCmp(a, b) <= 0
RatEq(a, b) == RatCmp(a, b) = 0
RatMin(a, b) == IF RatLess(b, a) THEN b ELSE a
RatSquare(a) == RatMul(a, a)

RECURSIVE RatPow(_, _)
RatPow(a, e) == IF e = 0 THEN Rat(1) ELSE RatMul(a, RatPow(a, e - 1))

(***************************************************************************)
(* Strings are sequences of one-character strings.                         *)
(***************************************************************************)
Digits == <<"0", "1", "2", "3", "4", "5", "6", "7", "8", "9">>
IsDigit(c) == \E d \in 1..10 : Digits[d] = c
DigitVal(c) == (CHOOSE d \in 1..10 : Digits[d] = c) - 1

\* code-unit order of the characters the script meets: '-' < '.' < '0'..'9'
CharCode(c) == IF c = "-" THEN 45 ELSE IF c = "." THEN 46 ELSE 48 + DigitVal(c)

\* Number.prototype.toString for a non-negative integer
RECURSIVE NatToString(_)
NatToString(n) ==
    IF n < 10 THEN <<Digits[n + 1]>>
    ELSE NatToString(n \div 10) \o <<Digits[(n % 10) + 1]>>

\* Number.prototype.toString for an integer
NumberToString(n) == IF n < 0 THEN <<"-">> \o NatToString(-n) ELSE NatToString(n)

\* value of the longest prefix of digits of s, acc being the value so far
RECURSIVE DigitPrefix(_, _)
DigitPrefix(s, acc) ==
    IF s = <<>> \/ ~IsDigit(Head(s)) THEN acc
    ELSE DigitPrefix(Tail(s), 10 * acc + DigitVal(Head(s)))

\* parseInt(s, 10): optional sign, then the longest prefix of digits; NaN if none
ParseInt(s) ==
    LET neg == s # <<>> /\ Head(s) = "-"
        body == IF neg THEN Tail(s) ELSE s
    IN  IF body = <<>> \/ ~IsDigit(Head(body)) THEN NaN
        ELSE Num(IF neg THEN -DigitPrefix(body, 0) ELSE DigitPrefix(body, 0))

\* Number(s) for the pieces of a region key: "" is 0, a digit string its value
ToNumber(s) == IF s = <<>> THEN 0 ELSE DigitPrefix(s, 0)

\* s < t in code-unit order (the order the default Array.prototype.sort uses)
RECURSIVE StrLess(_, _)
StrLess(s, t) ==
    IF t = <<>> THEN FALSE
    ELSE IF s = <<>> THEN TRUE
    ELSE IF Head(s) # Head(t) THEN CharCode(Head(s)) < CharCode(Head(t))
    ELSE StrLess(Tail(s), Tail(t))

\* Array.prototype.join over strings
RECURSIVE Join(_, _)
Join(strs, sep) ==
    IF strs = <<>> THEN <<>>
    ELSE IF Len(strs) = 1 THEN strs[1]
    ELSE strs[1] \o sep \o Join(Tail(strs), sep)

\* String.prototype.split(sep) for a one-character separator; cur is the piece
\* being read
RECURSIVE SplitFrom(_, _, _)
SplitFrom(s, sep, cur) ==
    IF s = <<>> THEN <<cur>>
    ELSE IF Head(s) = sep THEN <<cur>> \o SplitFrom(Tail(s), sep, <<>>)
    ELSE SplitFrom(Tail(s), sep, Append(cur, Head(s)))

Split(s, sep) == SplitFrom(s, sep, <<>>)

\* Array.prototype.slice(0, end)
SliceTo(s, end) ==
    LET e == IF end < 0 THEN Max(Len(s) + end, 0) ELSE Min(end, Len(s))
    IN  SubSeq(s, 1, e)

(***************************************************************************)
(* State of the page script.                                               *)
(*   points, distanceMetric, pValue, voronoiOrder   its `let` variables    *)
(*   width, height      the canvas size measured once, when the page loads *)
(*   rectW, rectH       the size of the svg element as the browser has it  *)
(*   orderValue, orderMax, metricValue, pInputValue, shapeValue,           *)
(*   pContainerDisplay, pointsCount                 the DOM controls       *)
(*   cells              the grouping the last update drew: key -> samples  *)
(*   ran                the classifier the last update ran                 *)
(* and of a caller of the library (voronoi-core.js):                       *)
(*   args               the arguments of its call of calculateDistance     *)
(*   returned           what the call returned, Pending before it          *)
(*   genCall            the generator it calls and the arguments           *)
(*   generated          the points the generator returned, once it has     *)
(***************************************************************************)
VARIABLES points, distanceMetric, pValue, voronoiOrder, width, height,
          rectW, rectH, orderValue, orderMax, metricValue, pInputValue,
          shapeValue, pContainerDisplay, pointsCount, cells, ran,
          args, returned, genCall, generated

vars == <<points, distanceMetric, pValue, voronoiOrder, width, height,
          rectW, rectH, orderValue, orderMax, metricValue, pInputValue,
          shapeValue, pContainerDisplay, pointsCount, cells, ran,
          args, returned, genCall, generated>>

(***************************************************************************)
(* Inputs the environment can deliver.                                     *)
(***************************************************************************)
\* size of the svg element when the page loads, and the sizes a window resize
\* can give it, in pixels
LoadSize == <<6, 6>>
ResizeSizes == {<<6, 6>>, <<8, 4>>}
\* pixel positions of canvas clicks
ClickPositions == {<<1, 1>>, <<5, 3>>}
\* texts the user can leave in the order field (a number input hands the
\* script "" for anything that is not a number)
OrderTexts == {<<>>, <<"0">>, <<"2">>, <<"4">>}
\* texts the user can leave in the p-value field
PTexts == {<<>>, <<"0">>, <<"3">>}
\* options of select#distance-metric
Metrics == {"euclidean", "manhattan", "minkowski", "hilbert"}
\* options of select#predefined-shape
Shapes == {"none", "triangle", "square", "pentagon", "hexagon", "dodecagon",
           "grid", "random"}

(***************************************************************************)
(* Distances.  A distance is NaN, Infinity, or the p-th root of a whole    *)
(* number r (p = 1: r itself).  Within one classification all distances    *)
(* have the same p, and roots are compared by their radicands.             *)
(***************************************************************************)
DistNum(p, r) == [c |-> "num", p |-> p, r |-> r]
DistInf == [c |-> "inf", p |-> 0, r |-> 0]
DistNaN == [c |-> "nan", p |-> 0, r |-> 0]

\* a < b on distances, as JavaScript decides it
DistLess(a, b) ==
    /\ a.c = "num"
    /\ b.c # "nan"
    /\ (b.c = "inf" \/ a.r < b.r)

\* a <= b on distances, as JavaScript decides it
DistLeq(a, b) ==
    /\ a.c # "nan"
    /\ b.c # "nan"
    /\ (b.c = "inf" \/ (a.c = "num" /\ a.r <= b.r))

\* Math.pow(Math.pow(dx, p) + Math.pow(dy, p), 1 / p) for dx, dy >= 0
\* (p < 0 is outside the modelled input texts)
MinkowskiValue(dx, dy, p) ==
    CASE p.nan -> DistNaN
      [] ~p.nan /\ p.v = 0 -> DistInf
      [] ~p.nan /\ p.v > 0 -> DistNum(p.v, Pow(dx, p.v) + Pow(dy, p.v))

\* calculateDistance of the page script; metric and p are distanceMetric
\* and pValue
scriptCalculateDistance(metric, p, x1, y1, x2, y2) ==
    CASE metric = "manhattan" -> DistNum(1, Abs(x1 - x2) + Abs(y1 - y2))
      [] metric = "euclidean" -> DistNum(2, Pow(x1 - x2, 2) + Pow(y1 - y2, 2))
      [] metric = "minkowski" -> MinkowskiValue(Abs(x1 - x2), Abs(y1 - y2), p)
      [] OTHER -> DistNum(2, Pow(x1 - x2, 2) + Pow(y1 - y2, 2))

(***************************************************************************)
(* The sampling lattice: for (x = 0; x < w; x += res)                      *)
(*                         for (y = 0; y < h; y += res)                    *)
(* as the sequence of samples <<x, y>> (pixels) in loop order.             *)
(***************************************************************************)
StepsBelow(limit, res) == (limit + res - 1) \div res

Lattice(w, h, res) ==
    LET ny == StepsBelow(h, res)
    IN  [i \in 1..(StepsBelow(w, res) * ny) |->
            <<((i - 1) \div ny) * res, ((i - 1) % ny) * res>>]

\* closestPoint = null
NullIndex == -1

\* the points.forEach scan of generateFirstOrderVoronoi from site i on;
\* yields closestPoint (a 0-based index or NullIndex)
RECURSIVE ScanClosest(_, _, _, _, _, _, _, _)
ScanClosest(pts, i, metric, p, x, y, minDist, closestPoint) ==
    IF i > Len(pts) THEN closestPoint
    ELSE LET dist == scriptCalculateDistance(metric, p, pts[i].x, pts[i].y,
                                             x * SubPx, y * SubPx)
         IN  IF DistLess(dist, minDist)
             THEN ScanClosest(pts, i + 1, metric, p, x, y, dist, i - 1)
             ELSE ScanClosest(pts, i + 1, metric, p, x, y, minDist, closestPoint)

\* variant of the scan that also replaces its candidate on an equal distance
RECURSIVE ScanClosestOnTie(_, _, _, _, _, _, _, _)
ScanClosestOnTie(pts, i, metric, p, x, y, minDist, closestPoint) ==
    IF i > Len(pts) THEN closestPoint
    ELSE LET dist == scriptCalculateDistance(metric, p, pts[i].x, pts[i].y,
                                             x * SubPx, y * SubPx)
         IN  IF DistLeq(dist, minDist)
             THEN ScanClosestOnTie(pts, i + 1, metric, p, x, y, dist, i - 1)
             ELSE ScanClosestOnTie(pts, i + 1, metric, p, x, y, minDist, closestPoint)

ClosestPointOnTie(pts, metric, p, x, y) ==
    ScanClosestOnTie(pts, 1, metric, p, x, y, DistInf, NullIndex)

ClosestPoint(pts, metric, p, x, y) ==
    ScanClosest(pts, 1, metric, p, x, y, DistInf, NullIndex)

\* variant of the grouping that keeps the samples an earlier run grouped
GroupByKeyStale(cellData) ==
    LET keys == {cellData[i].key : i \in DOMAIN cellData}
        Pos(k) == SelectSeq(cellData, LAMBDA c : c.key = k)
        Old(k) == IF k \in DOMAIN cells THEN cells[k] ELSE <<>>
    IN  [k \in keys \cup DOMAIN cells |->
            Old(k) \o [i \in DOMAIN Pos(k) |-> <<Pos(k)[i].x, Pos(k)[i].y>>]]

\* cellsByPoint / cellsByPointSet: the samples of cellData grouped by key,
\* each group in cellData order
GroupByKey(cellData) ==
    LET keys == {cellData[i].key : i \in DOMAIN cellData}
        Pos(k) == SelectSeq(cellData, LAMBDA c : c.key = k)
    IN  [k \in keys |-> [i \in DOMAIN Pos(k) |-> <<Pos(k)[i].x, Pos(k)[i].y>>]]

FirstOrderResolution == 2
HigherOrderResolution == 3

\* generateFirstOrderVoronoi: the grouping cellsByPoint
generateFirstOrderVoronoi(pts, metric, p, w, h) ==
    LET samples == Lattice(w, h, FirstOrderResolution)
        all == [i \in DOMAIN samples |->
                  [x |-> samples[i][1], y |-> samples[i][2],
                   pointIndex |-> ClosestPoint(pts, metric, p,
                                               samples[i][1], samples[i][2])]]
        kept == SelectSeq(all, LAMBDA c : c.pointIndex # NullIndex)
        cellData == [i \in DOMAIN kept |->
                       [x |-> kept[i].x, y |-> kept[i].y,
                        key |-> NumberToString(kept[i].pointIndex)]]
    IN  GroupByKey(cellData)

\* distances.sort((a, b) => a.dist - b.dist): a goes before b when the
\* difference is negative
ByDistance(a, b) == DistLess(a.dist, b.dist)

\* [...].sort(): the default order compares the elements as strings
ByString(a, b) == StrLess(NumberToString(a), NumberToString(b))

\* intersections.sort((a, b) => projA - projB) of the library
ByProjection(a, b) == RatLess(a.proj, b.proj)

\* the comparisons the code sorts with: "dist" is the comparator of
\* distances.sort, "proj" the one of intersections.sort, "string" the default
\* order
Before(cmp, a, b) ==
    IF cmp = "dist" THEN ByDistance(a, b)
    ELSE IF cmp = "proj" THEN ByProjection(a, b)
    ELSE ByString(a, b)

\* Array.prototype.sort is stable: e goes behind every element it is not
\* strictly before
RECURSIVE InsertStable(_, _, _)
InsertStable(cmp, sorted, e) ==
    IF sorted = <<>> THEN <<e>>
    ELSE IF Before(cmp, e, sorted[Len(sorted)])
         THEN Append(InsertStable(cmp, SubSeq(sorted, 1, Len(sorted) - 1), e),
                     sorted[Len(sorted)])
         ELSE Append(sorted, e)

RECURSIVE SortFrom(_, _, _)
SortFrom(cmp, sorted, rest) ==
    IF rest = <<>> THEN sorted
    ELSE SortFrom(cmp, InsertStable(cmp, sorted, Head(rest)), Tail(rest))

StableSort(cmp, s) == SortFrom(cmp, <<>>, s)

\* variant that leaves the distances in site order
UnsortedDistances(pts, metric, p, x, y) ==
    [i \in DOMAIN pts |->
        [index |-> i - 1,
         dist |-> scriptCalculateDistance(metric, p, pts[i].x, pts[i].y,
                                          x * SubPx, y * SubPx)]]

\* the sorted distances of one sample, as {index, dist} records
SortedDistances(pts, metric, p, x, y) ==
    StableSort("dist",
               [i \in DOMAIN pts |->
                  [index |-> i - 1,
                   dist |-> scriptCalculateDistance(metric, p, pts[i].x, pts[i].y,
                                                    x * SubPx, y * SubPx)]])

\* variant that slices one element short
NearestPointsShort(distances, order) ==
    LET firstK == SliceTo(distances, order - 1)
        indices == [i \in DOMAIN firstK |-> firstK[i].index]
        sorted == StableSort("string", indices)
    IN  Join([i \in DOMAIN sorted |-> NumberToString(sorted[i])], <<"-">>)

\* distances.slice(0, voronoiOrder).map(d => d.index).sort().join('-')
NearestPoints(distances, order) ==
    LET firstK == SliceTo(distances, order)
        indices == [i \in DOMAIN firstK |-> firstK[i].index]
        sorted == StableSort("string", indices)
    IN  Join([i \in DOMAIN sorted |-> NumberToString(sorted[i])], <<"-">>)

\* generateHigherOrderVoronoi: the grouping cellsByPointSet
generateHigherOrderVoronoi(pts, metric, p, order, w, h) ==
    LET samples == Lattice(w, h, HigherOrderResolution)
        kept == SelectSeq(samples, LAMBDA s : JsGe(Num(Len(pts)), order))
        cellData == [i \in DOMAIN kept |->
                       [x |-> kept[i][1], y |-> kept[i][2],
                        key |-> NearestPoints(
                                   SortedDistances(pts, metric, p,
                                                   kept[i][1], kept[i][2]),
                                   order.v)]]
    IN  GroupByKey(cellData)

NoCells == [k \in {} |-> <<>>]

(***************************************************************************)
(* The library, voronoi-core.js.  calculateDistance returns                *)
(*   "root":  the k-th root of the fraction r, negated if neg              *)
(*   "inf":   Infinity                                                     *)
(*   "eps":   100000 / (sqrt(r) + 0.000001)                                *)
(*   "log":   0.5 * |ln(sqrt(r))| * scale                                  *)
(* with the reals computed exactly.                                        *)
(***************************************************************************)
DEFAULT_WIDTH == 800
DEFAULT_HEIGHT == 600

RootValue(k, neg, r) == [t |-> "root", k |-> k, neg |-> neg, r |-> r, scale |-> 0]
Infinite == [t |-> "inf", k |-> 0, neg |-> FALSE, r |-> Rat(0), scale |-> 0]
EpsValue(r) == [t |-> "eps", k |-> 0, neg |-> FALSE, r |-> r, scale |-> 0]
LogValue(r, scale) == [t |-> "log", k |-> 0, neg |-> FALSE, r |-> r, scale |-> scale]
\* no call has returned yet
Pending == [t |-> "pending", k |-> 0, neg |-> FALSE, r |-> Rat(0), scale |-> 0]

\* 0.000001 and 0.01
Millionth == Frac(1, 1000 * 1000)
Hundredth == Frac(1, 100)

Min4(a, b, c, d) == RatMin(RatMin(a, b), RatMin(c, d))

\* v >= 0 && v <= 1
InUnit(v) == RatLeq(Rat(0), v) /\ RatLeq(v, Rat(1))

\* Math.pow(ax - bx, 2) + Math.pow(ay - by, 2)
SquaredDistance(ax, ay, bx, by) ==
    RatAdd(RatSquare(RatSub(ax, bx)), RatSquare(RatSub(ay, by)))

\* the points where the line y = m x + b meets the sides of the unit square,
\* in the order left, right, top, bottom
Intersections(m, b) ==
    LET rightY == RatAdd(m, b)
        sloped == RatLess(Millionth, RatAbs(m))
        topX == RatDiv(RatNeg(b), m)
        bottomX == RatDiv(RatSub(Rat(1), b), m)
    IN  (IF InUnit(b) THEN << <<Rat(0), b>> >> ELSE <<>>)
        \o (IF InUnit(rightY) THEN << <<Rat(1), rightY>> >> ELSE <<>>)
        \o (IF sloped /\ InUnit(topX) THEN << <<topX, Rat(0)>> >> ELSE <<>>)
        \o (IF sloped /\ InUnit(bottomX) THEN << <<bottomX, Rat(1)>> >> ELSE <<>>)

\* euclideanDist * boundaryFactor * Math.min(width, height), the result when
\* fewer than two intersections were found
ScaledEuclidean(nx1, ny1, nx2, ny2, dMin, scale) ==
    LET g == RatAdd(dMin, Hundredth)
    IN  IF g.s = 0 THEN Infinite
        ELSE RootValue(2, g.s < 0,
                       RatDiv(RatMul(SquaredDistance(nx1, ny1, nx2, ny2),
                                     RatSquare(Rat(scale))),
                              RatSquare(g)))

\* the result from the boundary points B1, B2 of the sorted intersections
CrossRatioValue(nx1, ny1, nx2, ny2, B1, B2, scale) ==
    LET D11 == SquaredDistance(nx1, ny1, B1[1], B1[2])
        D12 == SquaredDistance(nx1, ny1, B2[1], B2[2])
        D21 == SquaredDistance(nx2, ny2, B1[1], B1[2])
        D22 == SquaredDistance(nx2, ny2, B2[1], B2[2])
        epsilon == RatSquare(Millionth)
    IN  IF \/ RatLess(D11, epsilon) \/ RatLess(D12, epsilon)
           \/ RatLess(D21, epsilon) \/ RatLess(D22, epsilon)
        THEN EpsValue(Min4(D11, D12, D21, D22))
        ELSE LogValue(RatDiv(RatMul(D12, D21), RatMul(D22, D11)), scale)

\* variant that never takes two points for the same
NeverSame(x1, y1, x2, y2) == FALSE

\* x1 === x2 && y1 === y2
SameCoordinates(x1, y1, x2, y2) == x1 = x2 /\ y1 = y2

\* case 'hilbert' of calculateDistance
hilbertDistance(x1, y1, x2, y2, w, h) ==
    IF SameCoordinates(x1, y1, x2, y2) THEN RootValue(1, FALSE, Rat(0))
    ELSE
    LET nx1 == Frac(x1, w)
        ny1 == Frac(y1, h)
        nx2 == Frac(x2, w)
        ny2 == Frac(y2, h)
        d1Min == Min4(nx1, RatSub(Rat(1), nx1), ny1, RatSub(Rat(1), ny1))
        d2Min == Min4(nx2, RatSub(Rat(1), nx2), ny2, RatSub(Rat(1), ny2))
        dx == RatSub(nx2, nx1)
        dy == RatSub(ny2, ny1)
        m == RatDiv(dy, IF dx.s = 0 THEN Millionth ELSE dx)
        b == RatSub(ny1, RatMul(m, nx1))
        intersections == Intersections(m, b)
        scale == Min(w, h)
    IN  IF Len(intersections) < 2
        THEN ScaledEuclidean(nx1, ny1, nx2, ny2, RatMin(d1Min, d2Min), scale)
        ELSE LET sorted ==
                     StableSort("proj",
                         [i \in DOMAIN intersections |->
                            [pt |-> intersections[i],
                             proj |-> RatAdd(
                                 RatMul(RatSub(intersections[i][1], nx1), dx),
                                 RatMul(RatSub(intersections[i][2], ny1), dy))]])
             IN  CrossRatioValue(nx1, ny1, nx2, ny2,
                                 sorted[1].pt, sorted[Len(sorted)].pt, scale)

\* variant that adds the differences as they are
manhattanWithoutAbs(x1, y1, x2, y2) ==
    RootValue(1, (x1 - x2) + (y1 - y2) < 0, Rat(Abs((x1 - x2) + (y1 - y2))))

\* case 'manhattan': Math.abs(x1 - x2) + Math.abs(y1 - y2)
manhattanDistance(x1, y1, x2, y2) ==
    RootValue(1, FALSE, Rat(Abs(x1 - x2) + Abs(y1 - y2)))

\* case 'euclidean': Math.sqrt(Math.pow(x1 - x2, 2) + Math.pow(y1 - y2, 2))
euclideanDistance(x1, y1, x2, y2) ==
    RootValue(2, FALSE, RatAdd(RatSquare(Rat(x1 - x2)), RatSquare(Rat(y1 - y2))))

\* variant that leaves out the power 1 / pValue
minkowskiWithoutRoot(x1, y1, x2, y2, p) ==
    RootValue(1, FALSE, RatAdd(RatPow(Rat(Abs(x1 - x2)), p),
                               RatPow(Rat(Abs(y1 - y2)), p)))

\* case 'minkowski', for whole pValue >= 0: the sum of the pValue-th powers
\* to the power 1 / pValue; for pValue 0 that is Math.pow(2, Infinity)
minkowskiDistance(x1, y1, x2, y2, p) ==
    IF p = 0 THEN Infinite
    ELSE RootValue(p, FALSE, RatAdd(RatPow(Rat(Abs(x1 - x2)), p),
                                    RatPow(Rat(Abs(y1 - y2)), p)))

\* variant that returns 0 for a name the switch does not know
defaultZero(x1, y1, x2, y2) == RootValue(1, FALSE, Rat(0))

\* default: Math.sqrt(Math.pow(x1 - x2, 2) + Math.pow(y1 - y2, 2))
defaultDistance(x1, y1, x2, y2) ==
    RootValue(2, FALSE, RatAdd(RatSquare(Rat(x1 - x2)), RatSquare(Rat(y1 - y2))))

\* calculateDistance of the library, for whole pValue >= 0
calculateDistance(x1, y1, x2, y2, metric, p, w, h) ==
    CASE metric = "manhattan" -> manhattanDistance(x1, y1, x2, y2)
      [] metric = "euclidean" -> euclideanDistance(x1, y1, x2, y2)
      [] metric = "minkowski" -> minkowskiDistance(x1, y1, x2, y2, p)
      [] metric = "hilbert" -> hilbertDistance(x1, y1, x2, y2, w, h)
      [] OTHER -> defaultDistance(x1, y1, x2, y2)

(***************************************************************************)
(* Point generators of the page script.  Math.cos / Math.sin are taken     *)
(* from a table in thousandths and the products rounded to a whole unit.   *)
(***************************************************************************)
\* 1000 * sin(deg) for the first-quadrant angles the shapes need
SinTable(deg) ==
    CASE deg = 0 -> 0
      [] deg = 18 -> 309
      [] deg = 30 -> 500
      [] deg = 36 -> 588
      [] deg = 54 -> 809
      [] deg = 60 -> 866
      [] deg = 72 -> 951
      [] deg = 90 -> 1000

SinMilli(deg) ==
    LET d == deg % 360
    IN  IF d <= 90 THEN SinTable(d)
        ELSE IF d <= 180 THEN SinTable(180 - d)
        ELSE IF d <= 270 THEN -SinTable(d - 180)
        ELSE -SinTable(360 - d)

CosMilli(deg) == SinMilli(deg + 90)

\* a / b rounded to the nearest whole number, b > 0
RoundDiv(a, b) == (2 * a + b) \div (2 * b)

\* points on the circle of the given radius (units) about the canvas centre,
\* the i-th at startDeg + i * 360 / count degrees
PointsOnCircle(count, radius, startDeg, w, h) ==
    [k \in 1..count |->
        LET deg == startDeg + ((k - 1) * 360) \div count
        IN  [x |-> (w * SubPx) \div 2 + RoundDiv(radius * CosMilli(deg), 1000),
             y |-> (h * SubPx) \div 2 + RoundDiv(radius * SinMilli(deg), 1000)]]

\* createRegularPolygon(sides, radius): starts at the top, -90 degrees
scriptCreateRegularPolygon(sides, radius, w, h) ==
    PointsOnCircle(sides, radius, -90, w, h)

\* createCircleOfPoints(count, radius): starts at angle 0
scriptCreateCircleOfPoints(count, radius, w, h) ==
    PointsOnCircle(count, radius, 0, w, h)

\* createGridOfPoints(rows, cols): row-major, inset by 15 % per axis
scriptCreateGridOfPoints(rows, cols, w, h) ==
    LET marginX == (w * SubPx * 15) \div 100
        marginY == (h * SubPx * 15) \div 100
        stepX == (w * SubPx - 2 * marginX) \div (cols - 1)
        stepY == (h * SubPx - 2 * marginY) \div (rows - 1)
    IN  [k \in 1..(rows * cols) |->
            [x |-> marginX + ((k - 1) % cols) * stepX,
             y |-> marginY + ((k - 1) \div cols) * stepY]]

\* the j-th value (j = 0, 1, ...) Math.random() returns, in quarters, in the
\* outcome numbered seed
RandomQuarters(seed, j) == (seed * (j + 1) + j \div 3) % 4

\* createRandomPoints(count): x is drawn before y, inset by 10 % per axis
scriptCreateRandomPoints(count, seed, w, h) ==
    LET marginX == (w * SubPx * 10) \div 100
        marginY == (h * SubPx * 10) \div 100
    IN  [k \in 1..count |->
            [x |-> marginX
                   + (RandomQuarters(seed, 2 * (k - 1)) * (w * SubPx - 2 * marginX)) \div 4,
             y |-> marginY
                   + (RandomQuarters(seed, 2 * (k - 1) + 1) * (h * SubPx - 2 * marginY)) \div 4]]

\* the switch of applyPredefinedShape: the new site list for shapeType
ShapePoints(shapeType, seed, w, h) ==
    LET radius == (Min(w, h) * SubPx * 4) \div 10
    IN  CASE shapeType = "triangle" -> scriptCreateRegularPolygon(3, radius, w, h)
          [] shapeType = "square" -> scriptCreateRegularPolygon(4, radius, w, h)
          [] shapeType = "pentagon" -> scriptCreateRegularPolygon(5, radius, w, h)
          [] shapeType = "hexagon" -> scriptCreateRegularPolygon(6, radius, w, h)
          [] shapeType = "circle" -> scriptCreateCircleOfPoints(12, radius, w, h)
          [] shapeType = "grid" -> scriptCreateGridOfPoints(4, 4, w, h)
          [] shapeType = "random" -> scriptCreateRandomPoints(10, seed, w, h)
          [] OTHER -> <<>>

(***************************************************************************)
(* Point generators of the library.  A coordinate is                       *)
(*   "num":         the fraction v                                         *)
(*   "inf":         Infinity, negated if neg                               *)
(*   "nan":         NaN                                                    *)
(*   "cos", "sin":  v + radius * cos(2 pi turn), v + radius * sin(2 pi     *)
(*                  turn), kept as written                                 *)
(***************************************************************************)
Finite(v) == [t |-> "num", v |-> v, neg |-> FALSE, radius |-> Rat(0), turn |-> Rat(0)]
Unbounded(neg) ==
    [t |-> "inf", v |-> Rat(0), neg |-> neg, radius |-> Rat(0), turn |-> Rat(0)]
NotANumber ==
    [t |-> "nan", v |-> Rat(0), neg |-> FALSE, radius |-> Rat(0), turn |-> Rat(0)]
OnCircle(fn, centre, radius, turn) ==
    [t |-> fn, v |-> centre, neg |-> FALSE, radius |-> radius, turn |-> turn]

\* a / b on two fractions: a division by 0 gives Infinity, or NaN for 0 / 0
Quotient(a, b) ==
    IF b.s # 0 THEN Finite(RatDiv(a, b))
    ELSE IF a.s = 0 THEN NotANumber
    ELSE Unbounded(a.s < 0)

\* j * c for a fraction j and a coordinate c that is a number, Infinity or NaN
Times(j, c) ==
    CASE c.t = "num" -> Finite(RatMul(j, c.v))
      [] c.t = "inf" -> IF j.s = 0 THEN NotANumber ELSE Unbounded(c.neg # (j.s < 0))
      [] OTHER -> NotANumber

\* a + c for a fraction a and a coordinate c that is a number, Infinity or NaN
Plus(a, c) == IF c.t = "num" THEN Finite(RatAdd(a, c.v)) ELSE c

\* the j-th value (j = 0, 1, ...) the random source returns in the outcome
\* seed: one of 0, 1/4, 1/2, 3/4, and 1, which a source put in the place of
\* Math.random by a caller can return
RandomValue(seed, j) == Frac((seed * (j + 1) + j \div 3) % 5, 4)

\* createRegularPolygon(sides, radius, width, height); the loop runs for
\* i = 0 .. sides - 1 and starts a quarter turn back
createRegularPolygon(sides, radius, w, h) ==
    [k \in 1..sides |->
        LET turn == RatAdd(Frac(-1, 4), Frac(k - 1, sides))
        IN  [x |-> OnCircle("cos", Frac(w, 2), Rat(radius), turn),
             y |-> OnCircle("sin", Frac(h, 2), Rat(radius), turn)]]

\* variant whose loop runs for i = 0 .. count
createCircleInclusive(count, radius, w, h) ==
    [k \in 1..(count + 1) |->
        [x |-> OnCircle("cos", Frac(w, 2), Rat(radius), Frac(k - 1, count)),
         y |-> OnCircle("sin", Frac(h, 2), Rat(radius), Frac(k - 1, count))]]

\* createCircleOfPoints(count, radius, width, height)
createCircleOfPoints(count, radius, w, h) ==
    [k \in 1..count |->
        [x |-> OnCircle("cos", Frac(w, 2), Rat(radius), Frac(k - 1, count)),
         y |-> OnCircle("sin", Frac(h, 2), Rat(radius), Frac(k - 1, count))]]

\* variant that draws y before x
createRandomPointsYFirst(count, seed, w, h) ==
    LET marginX == RatMul(Rat(w), Frac(1, 10))
        marginY == RatMul(Rat(h), Frac(1, 10))
    IN  [k \in 1..count |->
            [x |-> Finite(RatAdd(marginX,
                       RatMul(RandomValue(seed, 2 * (k - 1) + 1),
                              RatSub(Rat(w), RatMul(Rat(2), marginX))))),
             y |-> Finite(RatAdd(marginY,
                       RatMul(RandomValue(seed, 2 * (k - 1)),
                              RatSub(Rat(h), RatMul(Rat(2), marginY)))))]]

\* createRandomPoints(count, width, height) in the outcome seed of the random
\* source: x is drawn before y
createRandomPoints(count, seed, w, h) ==
    LET marginX == RatMul(Rat(w), Frac(1, 10))
        marginY == RatMul(Rat(h), Frac(1, 10))
    IN  [k \in 1..count |->
            [x |-> Finite(RatAdd(marginX,
                       RatMul(RandomValue(seed, 2 * (k - 1)),
                              RatSub(Rat(w), RatMul(Rat(2), marginX))))),
             y |-> Finite(RatAdd(marginY,
                       RatMul(RandomValue(seed, 2 * (k - 1) + 1),
                              RatSub(Rat(h), RatMul(Rat(2), marginY)))))]]

\* variant that divides the span by the number of columns and of rows
createGridDividingByCount(rows, cols, w, h) ==
    LET marginX == RatMul(Rat(w), Frac(15, 100))
        marginY == RatMul(Rat(h), Frac(15, 100))
        cellWidth == Quotient(RatSub(Rat(w), RatMul(Rat(2), marginX)), Rat(cols))
        cellHeight == Quotient(RatSub(Rat(h), RatMul(Rat(2), marginY)), Rat(rows))
    IN  IF rows <= 0 \/ cols <= 0 THEN <<>>
        ELSE [k \in 1..(rows * cols) |->
                [x |-> Plus(marginX, Times(Rat((k - 1) % cols), cellWidth)),
                 y |-> Plus(marginY, Times(Rat((k - 1) \div cols), cellHeight))]]

\* createGridOfPoints(rows, cols, width, height): the outer loop runs over
\* the rows, the inner one over the columns
createGridOfPoints(rows, cols, w, h) ==
    LET marginX == RatMul(Rat(w), Frac(15, 100))
        marginY == RatMul(Rat(h), Frac(15, 100))
        cellWidth == Quotient(RatSub(Rat(w), RatMul(Rat(2), marginX)), Rat(cols - 1))
        cellHeight == Quotient(RatSub(Rat(h), RatMul(Rat(2), marginY)), Rat(rows - 1))
    IN  IF rows <= 0 \/ cols <= 0 THEN <<>>
        ELSE [k \in 1..(rows * cols) |->
                [x |-> Plus(marginX, Times(Rat((k - 1) % cols), cellWidth)),
                 y |-> Plus(marginY, Times(Rat((k - 1) \div cols), cellHeight))]]

\* the value of x (c = 1) or y (c = 2) in getCentroid after forEach has
\* visited the first k points, starting from 0
CoordinateSum(pts, c, k) ==
    LET RECURSIVE Visit(_)
        Visit(j) == IF j = 0 THEN Rat(0) ELSE RatAdd(Visit(j - 1), Rat(pts[j][c]))
    IN  Visit(k)

\* variant that divides the sums by one less than the number of points
getCentroidOfOthers(pts) ==
    <<Quotient(CoordinateSum(pts, 1, Len(pts)), Rat(Len(pts) - 1)),
      Quotient(CoordinateSum(pts, 2, Len(pts)), Rat(Len(pts) - 1))>>

\* getCentroid(points) for points [x, y]: the pair it returns
getCentroid(pts) ==
    <<Quotient(CoordinateSum(pts, 1, Len(pts)), Rat(Len(pts))),
      Quotient(CoordinateSum(pts, 2, Len(pts)), Rat(Len(pts)))>>

(***************************************************************************)
(* updateVoronoi and its callees.                                          *)
(***************************************************************************)
\* updateMaxOrder: the text of the order field afterwards
updateMaxOrder(pts, orderText) ==
    LET maxOrder == Max(1, Len(pts) - 1)
    IN  IF JsGt(ParseInt(orderText), Num(maxOrder))
        THEN NumberToString(maxOrder)
        ELSE orderText

\* variant whose threshold is two sites
ClassifierTwoSites(pts, order) ==
    IF Len(pts) < 2 THEN "none"
    ELSE IF JsStrictEq(order, Num(1)) THEN "first"
    ELSE "higher"

\* the branch of updateVoronoi taken: which classifier runs
Classifier(pts, order) ==
    IF Len(pts) < 3 THEN "none"
    ELSE IF JsStrictEq(order, Num(1)) THEN "first"
    ELSE "higher"

\* the grouping updateVoronoi draws
Classify(pts, metric, p, order, w, h) ==
    CASE Classifier(pts, order) = "none" -> NoCells
      [] Classifier(pts, order) = "first" ->
            generateFirstOrderVoronoi(pts, metric, p, w, h)
      [] Classifier(pts, order) = "higher" ->
            generateHigherOrderVoronoi(pts, metric, p, order, w, h)

\* variant that removes nothing from the group
KeepGroup(group) == group

\* cellsGroup.selectAll('*').remove(): the group without its children
ClearGroup(group) == NoCells

\* the group after the classifier has appended the regions drawn to it
AppendRegions(group, drawn) ==
    [k \in DOMAIN group \cup DOMAIN drawn |->
        (IF k \in DOMAIN group THEN group[k] ELSE <<>>)
        \o (IF k \in DOMAIN drawn THEN drawn[k] ELSE <<>>)]

\* updateVoronoi, run with the site list pts and the controls holding
\* orderText, metric and pText
updateVoronoi(pts, orderText, metric, pText) ==
    LET newOrderText == updateMaxOrder(pts, orderText)
    IN  /\ points' = pts
        /\ pointsCount' = Len(pts)
        /\ orderMax' = Max(1, Len(pts) - 1)
        /\ orderValue' = newOrderText
        /\ metricValue' = metric
        /\ pInputValue' = pText
        \* getSettings
        /\ distanceMetric' = metric
        /\ pValue' = ParseInt(pText)
        /\ voronoiOrder' = ParseInt(newOrderText)
        /\ ran' = Classifier(pts, ParseInt(newOrderText))
        /\ cells' = AppendRegions(ClearGroup(cells),
                                  Classify(pts, metric, ParseInt(pText),
                                           ParseInt(newOrderText), width, height))

\* updatePValueVisibility: the display style of the p-value container
updatePValueVisibility(metric) == IF metric = "minkowski" THEN "block" ELSE "none"

(***************************************************************************)
(* The page after DOMContentLoaded.                                        *)
(***************************************************************************)
\* the page calls no generator of the library either
NoGenCall == [fn |-> "none", count |-> 0, radius |-> 0, rows |-> 0, cols |-> 0,
              seed |-> 0, w |-> DEFAULT_WIDTH, h |-> DEFAULT_HEIGHT,
              points |-> <<>>]
NotGenerated == [done |-> FALSE, pts |-> <<>>]

\* the page makes no call of the library: the arguments stay at the defaults
\* of its parameters
NoCall == [x1 |-> 0, y1 |-> 0, x2 |-> 0, y2 |-> 0, metric |-> "euclidean",
           p |-> 2, w |-> DEFAULT_WIDTH, h |-> DEFAULT_HEIGHT]

Init ==
    /\ width = LoadSize[1] /\ height = LoadSize[2]
    /\ rectW = LoadSize[1] /\ rectH = LoadSize[2]
    /\ points = <<>>
    /\ distanceMetric = "euclidean"
    /\ pValue = Num(2)
    /\ voronoiOrder = Num(1)
    /\ orderValue = <<"1">>
    /\ orderMax = 5
    /\ metricValue = "euclidean"
    /\ pInputValue = <<"2">>
    /\ shapeValue = "none"
    /\ pContainerDisplay = updatePValueVisibility("euclidean")
    /\ pointsCount = 0
    /\ cells = NoCells
    /\ ran = "none"
    /\ args = NoCall
    /\ returned = Pending
    /\ genCall = NoGenCall
    /\ generated = NotGenerated

(***************************************************************************)
(* Event handlers.                                                         *)
(***************************************************************************)
\* variant that puts the new site in front
PushPointFront(pts, pos) == <<[x |-> pos[1] * SubPx, y |-> pos[2] * SubPx]>> \o pts

\* the site list after a canvas click at pixel pos
PushPoint(pts, pos) == Append(pts, [x |-> pos[1] * SubPx, y |-> pos[2] * SubPx])

\* variant that leaves the text of the order field as it is
OrderKept(orderText) == orderText

\* document.getElementById('order').value = 1: the text of the order field
\* afterwards
OrderReset(orderText) == NumberToString(1)

\* svgElement click
CanvasClick ==
    /\ Len(points) < MaxSites
    /\ \E pos \in ClickPositions :
          updateVoronoi(PushPoint(points, pos), orderValue, metricValue, pInputValue)
    /\ shapeValue' = "none"
    /\ UNCHANGED <<args, returned, genCall, generated, width, height, rectW, rectH, pContainerDisplay>>

\* clear-button click
ClearClick ==
    /\ updateVoronoi(<<>>, OrderReset(orderValue), metricValue, pInputValue)
    /\ shapeValue' = "none"
    /\ UNCHANGED <<args, returned, genCall, generated, width, height, rectW, rectH, pContainerDisplay>>

\* apply-shape click, with the option s of select#predefined-shape the user
\* has picked (picking an option runs no handler): applyPredefinedShape
ApplyShapeClick ==
    /\ \E s \in Shapes, seed \in 1..MaxSeed :
          /\ shapeValue' = s
          /\ updateVoronoi(ShapePoints(s, seed, width, height),
                           OrderReset(orderValue), metricValue, pInputValue)
    /\ UNCHANGED <<args, returned, genCall, generated, width, height, rectW, rectH, pContainerDisplay>>

\* order change: the user leaves a new text in the order field
OrderChange ==
    /\ \E t \in OrderTexts : updateVoronoi(points, t, metricValue, pInputValue)
    /\ UNCHANGED <<args, returned, genCall, generated, width, height, rectW, rectH, shapeValue, pContainerDisplay>>

\* distance-metric change
MetricChange ==
    /\ \E m \in Metrics :
          /\ pContainerDisplay' = updatePValueVisibility(m)
          /\ updateVoronoi(points, orderValue, m, pInputValue)
    /\ UNCHANGED <<args, returned, genCall, generated, width, height, rectW, rectH, shapeValue>>

\* p-value change
PValueChange ==
    /\ \E t \in PTexts : updateVoronoi(points, orderValue, metricValue, t)
    /\ UNCHANGED <<args, returned, genCall, generated, width, height, rectW, rectH, shapeValue, pContainerDisplay>>

\* window resize: the svg element takes a new size
WindowResize ==
    /\ \E size \in ResizeSizes : rectW' = size[1] /\ rectH' = size[2]
    /\ updateVoronoi(points, orderValue, metricValue, pInputValue)
    /\ UNCHANGED <<args, returned, genCall, generated, width, height, shapeValue, pContainerDisplay>>

Next ==
    \/ CanvasClick
    \/ ClearClick
    \/ ApplyShapeClick
    \/ OrderChange
    \/ MetricChange
    \/ PValueChange
    \/ WindowResize

Spec == Init /\ [][Next]_vars

(***************************************************************************)
(* A caller of the library: it picks the arguments, then calls             *)
(* calculateDistance once.                                                 *)
(***************************************************************************)
\* largest pValue passed
MaxP == 3

\* points passed, in pixels: corners and sides of the rectangle, its inside,
\* and points outside it
CallPoints == {<<0, 0>>, <<3, 4>>, <<80, 60>>, <<240, 180>>, <<400, 60>>,
               <<400, 300>>, <<0, 300>>, <<0, -60>>, <<-80, 60>>, <<80, -60>>}
\* canvas sizes passed
CallBounds == {<<DEFAULT_WIDTH, DEFAULT_HEIGHT>>, <<1000, 1000>>}
\* metric names passed: the four kinds and a name the switch does not know
CallMetrics == {"euclidean", "manhattan", "minkowski", "hilbert", "chebyshev"}

CallInputs ==
    {[x1 |-> a[1], y1 |-> a[2], x2 |-> b[1], y2 |-> b[2], metric |-> m,
      p |-> p, w |-> s[1], h |-> s[2]] :
        a \in CallPoints, b \in CallPoints, m \in CallMetrics, p \in 0..MaxP,
        s \in CallBounds}

InitDist ==
    /\ width = LoadSize[1] /\ height = LoadSize[2]
    /\ rectW = LoadSize[1] /\ rectH = LoadSize[2]
    /\ points = <<>>
    /\ distanceMetric = "euclidean"
    /\ pValue = Num(2)
    /\ voronoiOrder = Num(1)
    /\ orderValue = <<"1">>
    /\ orderMax = 5
    /\ metricValue = "euclidean"
    /\ pInputValue = <<"2">>
    /\ shapeValue = "none"
    /\ pContainerDisplay = updatePValueVisibility("euclidean")
    /\ pointsCount = 0
    /\ cells = NoCells
    /\ ran = "none"
    /\ args \in CallInputs
    /\ returned = Pending
    /\ genCall = NoGenCall
    /\ generated = NotGenerated

\* the call: calculateDistance(x1, y1, x2, y2, metric, pValue, width, height)
CallCalculateDistance ==
    /\ returned = Pending
    /\ returned' = calculateDistance(args.x1, args.y1, args.x2, args.y2,
                                     args.metric, args.p, args.w, args.h)
    /\ UNCHANGED <<genCall, generated, args, points, distanceMetric, pValue, voronoiOrder, width,
                   height, rectW, rectH, orderValue, orderMax, metricValue,
                   pInputValue, shapeValue, pContainerDisplay, pointsCount,
                   cells, ran>>

NextDist == CallCalculateDistance

SpecDist == InitDist /\ [][NextDist]_vars

(***************************************************************************)
(* A caller of the library's generators: it picks a generator and its      *)
(* arguments, then calls it once.                                          *)
(***************************************************************************)
\* largest number of points asked for, largest number of rows and columns
MaxCount == 5
MaxRows == 4
\* largest number of points passed to getCentroid
MaxPolygon == 3

\* radii passed
CallRadii == {-50, 0, 100}

\* points [x, y] passed to getCentroid, and the arrays of them: every array
\* of at most MaxPolygon points, the empty one included
CentroidPoints == {<<0, 0>>, <<4, 0>>, <<2, 4>>, <<-3, 1>>}
CentroidInputs == UNION {[1..n -> CentroidPoints] : n \in 0..MaxPolygon}

GenInputs ==
    {[fn |-> f, count |-> n, radius |-> r, rows |-> 0, cols |-> 0, seed |-> 0,
      w |-> s[1], h |-> s[2], points |-> <<>>] :
        f \in {"createRegularPolygon", "createCircleOfPoints"},
        n \in -1..MaxCount, r \in CallRadii, s \in CallBounds}
    \cup
    {[fn |-> "createRandomPoints", count |-> n, radius |-> 0, rows |-> 0,
      cols |-> 0, seed |-> sd, w |-> s[1], h |-> s[2], points |-> <<>>] :
        n \in -1..MaxCount, sd \in 1..MaxSeed, s \in CallBounds}
    \cup
    {[fn |-> "createGridOfPoints", count |-> 0, radius |-> 0, rows |-> r,
      cols |-> c, seed |-> 0, w |-> s[1], h |-> s[2], points |-> <<>>] :
        r \in 1..MaxRows, c \in 1..MaxRows, s \in CallBounds}
    \cup
    {[fn |-> "getCentroid", count |-> 0, radius |-> 0, rows |-> 0, cols |-> 0,
      seed |-> 0, w |-> DEFAULT_WIDTH, h |-> DEFAULT_HEIGHT, points |-> q] :
        q \in CentroidInputs}

InitGen ==
    /\ width = LoadSize[1] /\ height = LoadSize[2]
    /\ rectW = LoadSize[1] /\ rectH = LoadSize[2]
    /\ points = <<>>
    /\ distanceMetric = "euclidean"
    /\ pValue = Num(2)
    /\ voronoiOrder = Num(1)
    /\ orderValue = <<"1">>
    /\ orderMax = 5
    /\ metricValue = "euclidean"
    /\ pInputValue = <<"2">>
    /\ shapeValue = "none"
    /\ pContainerDisplay = updatePValueVisibility("euclidean")
    /\ pointsCount = 0
    /\ cells = NoCells
    /\ ran = "none"
    /\ args = NoCall
    /\ returned = Pending
    /\ genCall \in GenInputs
    /\ generated = NotGenerated

\* what a generator call leaves alone
GenFrame ==
    UNCHANGED <<genCall, args, returned, points, distanceMetric, pValue,
                voronoiOrder, width, height, rectW, rectH, orderValue, orderMax,
                metricValue, pInputValue, shapeValue, pContainerDisplay,
                pointsCount, cells, ran>>

CallCreateRegularPolygon ==
    /\ genCall.fn = "createRegularPolygon" /\ ~generated.done
    /\ generated' = [done |-> TRUE,
                     pts |-> createRegularPolygon(genCall.count, genCall.radius,
                                                  genCall.w, genCall.h)]
    /\ GenFrame

CallCreateCircleOfPoints ==
    /\ genCall.fn = "createCircleOfPoints" /\ ~generated.done
    /\ generated' = [done |-> TRUE,
                     pts |-> createCircleOfPoints(genCall.count, genCall.radius,
                                                  genCall.w, genCall.h)]
    /\ GenFrame

CallCreateRandomPoints ==
    /\ genCall.fn = "createRandomPoints" /\ ~generated.done
    /\ generated' = [done |-> TRUE,
                     pts |-> createRandomPoints(genCall.count, genCall.seed,
                                                genCall.w, genCall.h)]
    /\ GenFrame

CallCreateGridOfPoints ==
    /\ genCall.fn = "createGridOfPoints" /\ ~generated.done
    /\ generated' = [done |-> TRUE,
                     pts |-> createGridOfPoints(genCall.rows, genCall.cols,
                                                genCall.w, genCall.h)]
    /\ GenFrame

\* getCentroid reads points and writes its two sums only
CallGetCentroid ==
    /\ genCall.fn = "getCentroid" /\ ~generated.done
    /\ generated' = [done |-> TRUE, pts |-> getCentroid(genCall.points)]
    /\ GenFrame

NextGen ==
    \/ CallGetCentroid
    \/ CallCreateRegularPolygon
    \/ CallCreateCircleOfPoints
    \/ CallCreateRandomPoints
    \/ CallCreateGridOfPoints

SpecGen == InitGen /\ [][NextGen]_vars

(***************************************************************************)
(* Properties of the page script.                                          *)
(***************************************************************************)
\* the 0-based sites
SiteIndices == 0..(Len(points) - 1)

\* the distance from site i (0-based) to the sample s (pixels) under the
\* current metric configuration
SiteDist(i, s) ==
    scriptCalculateDistance(distanceMetric, pValue, points[i + 1].x, points[i + 1].y,
                            s[1] * SubPx, s[2] * SubPx)

\* the distances from the sample to the sites are numbers
NumericAt(s) == \A i \in SiteIndices : SiteDist(i, s).c = "num"
\* ... or at least none of them is NaN
NoNaNAt(s) == \A i \in SiteIndices : SiteDist(i, s).c # "nan"

\* a is at most / exactly b, for distances that are not NaN
AtMost(a, b) == b.c = "inf" \/ (a.c = "num" /\ a.r <= b.r)
Same(a, b) == a.c = b.c /\ (a.c = "num" => a.r = b.r)

SeqRange(q) == {q[i] : i \in DOMAIN q}
FirstOrderSamples == SeqRange(Lattice(width, height, FirstOrderResolution))
HigherOrderSamples == SeqRange(Lattice(width, height, HigherOrderResolution))

\* the keys whose sample list holds s, and how often s is listed under k
KeysOf(s) == {k \in DOMAIN cells : s \in SeqRange(cells[k])}
Occurrences(k, s) == Cardinality({i \in DOMAIN cells[k] : cells[k][i] = s})

\* pointSet.split('-').map(Number): the contributing indices of a key
KeyIndices(k) == [i \in DOMAIN Split(k, "-") |-> ToNumber(Split(k, "-")[i])]
KeySet(k) == SeqRange(KeyIndices(k))

\* the order is a number k with 2 <= k <= |sites| - 1 and the higher-order
\* classifier ran
HigherOrderCase ==
    /\ ran = "higher"
    /\ ~voronoiOrder.nan
    /\ 2 <= voronoiOrder.v
    /\ voronoiOrder.v <= Len(points) - 1

\* j is the lowest-indexed site among those nearest to s
LowestNearest(j, s) ==
    /\ j \in SiteIndices
    /\ \A i \in SiteIndices : AtMost(SiteDist(j, s), SiteDist(i, s))
    /\ \A i \in SiteIndices : i < j => ~Same(SiteDist(i, s), SiteDist(j, s))

\* C1: when the first-order classifier has run, every lattice sample whose
\* distances to the sites are numbers is grouped under exactly the site that
\* is nearest to it, the lowest-indexed one among equally near sites.
C1_FirstOrderNearest ==
    ran = "first" =>
        \A s \in FirstOrderSamples :
            /\ \A k \in KeysOf(s) : LowestNearest(ParseInt(k).v, s)
            /\ NumericAt(s) => KeysOf(s) # {}

\* C1 witness: a sample equally near to two distinct nearest sites is grouped
\* under the lower index.
C1_Witness ==
    /\ ran = "first"
    /\ \E s \in FirstOrderSamples : \E i, j \in SiteIndices :
          /\ i < j
          /\ points[i + 1] # points[j + 1]
          /\ NumericAt(s)
          /\ Same(SiteDist(i, s), SiteDist(j, s))
          /\ LowestNearest(i, s)
          /\ NumberToString(i) \in KeysOf(s)

\* the whole numbers of a finite set in ascending order
RECURSIVE Ascending(_)
Ascending(S) ==
    IF S = {} THEN <<>>
    ELSE LET m == CHOOSE a \in S : \A b \in S : a <= b
         IN  <<m>> \o Ascending(S \ {m})

\* the key the claim describes: the first k indices of the distance-sorted
\* list, sorted ascending as numbers, joined with hyphens
NumericKey(s) ==
    LET firstK == SliceTo(SortedDistances(points, distanceMetric, pValue, s[1], s[2]),
                          voronoiOrder.v)
        sorted == Ascending({firstK[i].index : i \in DOMAIN firstK})
    IN  Join([i \in DOMAIN sorted |-> NumberToString(sorted[i])], <<"-">>)

\* C2: when the higher-order classifier has run with an order k > 1, the key
\* of every sample is the hyphen-joined list of its first k site indices in
\* ascending numeric order, whatever the number of sites.
C2_KeyNumericAscending ==
    (ran = "higher" /\ JsGt(voronoiOrder, Num(1))) =>
        \A s \in HigherOrderSamples : \A k \in KeysOf(s) : k = NumericKey(s)

\* C3: for 2 <= k <= |sites| - 1, every site of a sample's contributing set
\* is at most as far from the sample as every site outside it, and where the
\* two are equally far the one inside has the lower index.
C3_KNearestSet ==
    HigherOrderCase =>
        \A s \in HigherOrderSamples : \A k \in KeysOf(s) :
            NoNaNAt(s) =>
                \A i \in KeySet(k) : \A j \in SiteIndices \ KeySet(k) :
                    /\ AtMost(SiteDist(i, s), SiteDist(j, s))
                    /\ Same(SiteDist(i, s), SiteDist(j, s)) => i < j

\* C3 witness: a sample with a tie across the boundary of its contributing
\* set, between sites at different places.
C3_Witness ==
    /\ HigherOrderCase
    /\ \E s \in HigherOrderSamples : \E k \in KeysOf(s) :
          \E i \in KeySet(k) : \E j \in SiteIndices \ KeySet(k) :
              /\ NumericAt(s)
              /\ points[i + 1] # points[j + 1]
              /\ Same(SiteDist(i, s), SiteDist(j, s))

\* C4: for |sites| >= 3 and 2 <= k <= |sites| - 1, every lattice sample is
\* listed exactly once, under a key of exactly k distinct site indices.
C4_KeyHasKSites ==
    HigherOrderCase =>
        \A s \in HigherOrderSamples :
            /\ Cardinality(KeysOf(s)) = 1
            /\ \A k \in KeysOf(s) :
                  /\ Occurrences(k, s) = 1
                  /\ Len(KeyIndices(k)) = voronoiOrder.v
                  /\ Cardinality(KeySet(k)) = voronoiOrder.v
                  /\ KeySet(k) \subseteq SiteIndices

\* C4 witness: k = |sites| - 1 with at least four sites, and samples grouped.
C4_Witness ==
    /\ HigherOrderCase
    /\ Len(points) >= 4
    /\ voronoiOrder.v = Len(points) - 1
    /\ \A s \in HigherOrderSamples : KeysOf(s) # {}

\* C5: the order used for classification is a number k with
\* 1 <= k <= max(1, |sites| - 1).
C5_OrderInRange ==
    /\ ~voronoiOrder.nan
    /\ 1 <= voronoiOrder.v
    /\ voronoiOrder.v <= Max(1, Len(points) - 1)

\* C6: with fewer than three sites no classifier has run and there are no
\* regions.
C6_NoRegionsBelowThree ==
    Len(points) < 3 => (ran = "none" /\ cells = NoCells)

\* C6 witness: two sites, an order other than 1 and a metric other than the
\* default.
C6_Witness ==
    /\ Len(points) = 2
    /\ voronoiOrder = Num(0)
    /\ distanceMetric = "minkowski"
    /\ ran = "none"

\* every site keeps its index and its coordinates over the step
SitesKept ==
    \A i \in DOMAIN points : i \in DOMAIN points' /\ points'[i] = points[i]

\* C7: every step keeps each site at its index with its coordinates, except
\* the clear and the apply-shape steps.
C7_IndexStable == [][SitesKept \/ ClearClick \/ ApplyShapeClick]_vars

\* C7 witness: three clicked sites, the first two at different places, after
\* a change of metric and of order.
C7_Witness ==
    /\ Len(points) = 3
    /\ shapeValue = "none"
    /\ points[1] # points[2]
    /\ distanceMetric = "manhattan"
    /\ voronoiOrder = Num(2)

\* what the classifier reads
ClassifierInputs == <<points, distanceMetric, pValue, voronoiOrder, width, height>>

\* C8: a step that leaves the classifier's inputs as they were leaves the
\* grouping as it was: same keys, same samples, same order.
C8_Deterministic == [][ClassifierInputs' = ClassifierInputs => cells' = cells]_vars

\* C8 witness: regions drawn by a higher-order run repeated after a resize
\* (the classifier reads the load-time size, so its inputs were unchanged).
C8_Witness ==
    /\ rectW # width
    /\ ran = "higher"
    /\ cells # NoCells
(***************************************************************************)
(* Properties of the library's calculateDistance, under SpecDist.          *)
(* The logarithm of a fraction other than 1 is no root of a fraction       *)
(* (Lindemann-Weierstrass), so a "log" result equals a "root" or an "eps"  *)
(* result, or a fraction, only when both are 0.                            *)
(***************************************************************************)
HilbertReturned == args.metric = "hilbert" /\ returned.t # "pending"

\* q or 1 / q, whichever is >= 1
AboveOne(q) == IF RatLess(q, Rat(1)) THEN RatDiv(Rat(1), q) ELSE q

\* the result v is the fraction c
ValueIsFraction(v, c) ==
    CASE v.t = "root" ->
           IF v.r.s = 0 THEN c.s = 0
           ELSE /\ c.s = (IF v.neg THEN -1 ELSE 1)
                /\ RatEq(v.r, RatPow(RatAbs(c), v.k))
      [] v.t = "eps" ->
           /\ c.s > 0
           /\ LET root == RatSub(RatDiv(Rat(100000), c), Millionth)
              IN  root.s >= 0 /\ RatEq(v.r, RatSquare(root))
      [] v.t = "log" -> c.s = 0 /\ RatEq(v.r, Rat(1))
      [] OTHER -> FALSE

\* sqrt(r) * (sqrt(e) + 0.000001) = 100000, that is
\* sqrt(r * e) + sqrt(r * 0.000001^2) = 100000
RootMeetsEps(r, e) ==
    LET a == RatMul(r, e)
        b == RatMul(r, RatSquare(Millionth))
        rest == RatSub(RatSub(RatSquare(Rat(100000)), a), b)
    IN  rest.s >= 0 /\ RatEq(RatMul(Rat(4), RatMul(a, b)), RatSquare(rest))

\* a "root" result, which the 'hilbert' case returns with k = 1 or 2, and an
\* "eps" result are the same number
RootIsEps(v, e) ==
    /\ ~v.neg
    /\ v.r.s > 0
    /\ RootMeetsEps(IF v.k = 1 THEN RatSquare(v.r) ELSE v.r, e.r)

\* two results of the 'hilbert' case for the same canvas are the same number
SameValue(a, b) ==
    CASE a.t = "inf" \/ b.t = "inf" -> a.t = b.t
      [] a.t = "root" /\ b.t = "root" ->
           IF a.r.s = 0 \/ b.r.s = 0 THEN a.r.s = b.r.s
           ELSE a.neg = b.neg /\ RatEq(RatPow(a.r, b.k), RatPow(b.r, a.k))
      [] a.t = "eps" /\ b.t = "eps" -> RatEq(a.r, b.r)
      [] a.t = "log" /\ b.t = "log" -> RatEq(AboveOne(a.r), AboveOne(b.r))
      [] a.t = "root" /\ b.t = "eps" -> RootIsEps(a, b)
      [] a.t = "eps" /\ b.t = "root" -> RootIsEps(b, a)
      [] a.t = "root" /\ b.t = "log" -> a.r.s = 0 /\ RatEq(b.r, Rat(1))
      [] a.t = "log" /\ b.t = "root" -> b.r.s = 0 /\ RatEq(a.r, Rat(1))
      [] OTHER -> FALSE

\* the larger of two fractions
RatMax(a, b) == IF RatLess(a, b) THEN b ELSE a

\* max(|x1 - x2| / width, |y1 - y2| / height) * min(width, height)
ScaledChebyshev(x1, y1, x2, y2, w, h) ==
    RatMul(RatMax(Frac(Abs(x1 - x2), w), Frac(Abs(y1 - y2), h)), Rat(Min(w, h)))

\* C9: a 'hilbert' call returns max(|x1-x2|/width, |y1-y2|/height) *
\* min(width, height); on the 800 x 600 canvas it returns 60 for (0,0),
\* (80,60) and 300 for (0,0), (400,60).
C9_HilbertCanonical ==
    HilbertReturned =>
        /\ ValueIsFraction(returned,
                           ScaledChebyshev(args.x1, args.y1, args.x2, args.y2,
                                           args.w, args.h))
        /\ (/\ <<args.x1, args.y1, args.x2, args.y2>> = <<0, 0, 80, 60>>
            /\ <<args.w, args.h>> = <<DEFAULT_WIDTH, DEFAULT_HEIGHT>>)
               => ValueIsFraction(returned, Rat(60))
        /\ (/\ <<args.x1, args.y1, args.x2, args.y2>> = <<0, 0, 400, 60>>
            /\ <<args.w, args.h>> = <<DEFAULT_WIDTH, DEFAULT_HEIGHT>>)
               => ValueIsFraction(returned, Rat(300))

\* C10: a 'hilbert' call returns the same number as the call with the two
\* points exchanged, vertical segments, points on the boundary and lines that
\* miss the rectangle included.
C10_HilbertSymmetric ==
    HilbertReturned =>
        SameValue(returned,
                  calculateDistance(args.x2, args.y2, args.x1, args.y1,
                                    args.metric, args.p, args.w, args.h))

\* the call has returned
Returned == returned.t # "pending"

\* the two points of the call are the same
SamePoint == args.x1 = args.x2 /\ args.y1 = args.y2

\* pValue is positive whenever the metric reads it
PositiveP == args.metric = "minkowski" => args.p > 0

\* the result is the number 0
IsZero(v) ==
    \/ v.t = "root" /\ v.r.s = 0
    \/ v.t = "log" /\ RatEq(v.r, Rat(1))

\* C11: a 'hilbert' call returns 0 exactly when its two points have the same
\* coordinates.
C11_HilbertZeroIffSame == HilbertReturned => (IsZero(returned) <=> SamePoint)

\* (x, y) lies in the rectangle of the canvas
InBounds(x, y, w, h) == x >= 0 /\ x <= w /\ y >= 0 /\ y <= h

\* c = a + s * (b - a) for some s > 1: c lies beyond b on the ray from a
Beyond(a, b, c) ==
    LET ux == b[1] - a[1]
        uy == b[2] - a[2]
        vx == c[1] - a[1]
        vy == c[2] - a[2]
    IN  /\ ux * vy = uy * vx
        /\ ux * vx + uy * vy > 0
        /\ vx * vx + vy * vy > ux * ux + uy * uy

\* a "log" result is below 0.25 * scale * crossRatio^2, an "eps" result above
\* 100000 / 0.000002: the former is below the latter when
\* scale * crossRatio^2 <= 200000000000
LogBelowEps(l) ==
    RatLeq(RatMul(Rat(l.scale), AboveOne(l.r)),
           RatMul(Rat(200000), Rat(1000 * 1000)))

\* the order of two "eps" or "log" results for the same canvas can be told
Comparable(a, b) ==
    /\ a.t \in {"eps", "log"}
    /\ b.t \in {"eps", "log"}
    /\ a.t = "log" /\ b.t = "eps" => LogBelowEps(a)
    /\ a.t = "eps" /\ b.t = "log" => LogBelowEps(b)

\* a < b for two comparable results
HilbertLess(a, b) ==
    CASE a.t = "eps" /\ b.t = "eps" -> RatLess(b.r, a.r)
      [] a.t = "log" /\ b.t = "log" -> RatLess(AboveOne(a.r), AboveOne(b.r))
      [] a.t = "log" /\ b.t = "eps" -> TRUE
      [] OTHER -> FALSE

\* C12: with both points of a 'hilbert' call in the rectangle, every point
\* of the rectangle that lies beyond the second point on the ray from the
\* first is strictly farther from the first than the second point is.
C12_HilbertMonotone ==
    (/\ HilbertReturned
     /\ ~SamePoint
     /\ InBounds(args.x1, args.y1, args.w, args.h)
     /\ InBounds(args.x2, args.y2, args.w, args.h)) =>
        \A c \in CallPoints :
            (/\ InBounds(c[1], c[2], args.w, args.h)
             /\ Beyond(<<args.x1, args.y1>>, <<args.x2, args.y2>>, c)) =>
                LET farther == calculateDistance(args.x1, args.y1, c[1], c[2],
                                                 args.metric, args.p, args.w, args.h)
                IN  Comparable(returned, farther) /\ HilbertLess(returned, farther)

\* the result is a number >= 0
NonNegative(v) == v.t = "root" => (~v.neg \/ v.r.s = 0)

\* C13: whatever the metric name (pValue positive for 'minkowski') and
\* wherever the points lie, inside the rectangle or outside, the result is a
\* number >= 0.
C13_NonNegative == (Returned /\ PositiveP) => NonNegative(returned)

\* C14: a call whose two points are the same returns 0, whatever the metric
\* name (pValue positive for 'minkowski').
C14_SamePointZero == (Returned /\ PositiveP /\ SamePoint) => IsZero(returned)

\* C14 witness: a 'hilbert' call with the corner (0, 0) twice has returned.
C14_Witness ==
    /\ HilbertReturned
    /\ <<args.x1, args.y1, args.x2, args.y2>> = <<0, 0, 0, 0>>
    /\ IsZero(returned)

\* the names the switch knows
KnownMetrics == {"euclidean", "manhattan", "minkowski", "hilbert"}

\* C15: a call with a metric name the switch does not know returns the
\* number the 'euclidean' call on the same points returns.
C15_UnknownIsEuclidean ==
    (Returned /\ args.metric \notin KnownMetrics) =>
        SameValue(returned,
                  calculateDistance(args.x1, args.y1, args.x2, args.y2,
                                    "euclidean", args.p, args.w, args.h))

\* C15 witness: a call with an unknown name and two different points has
\* returned a positive number.
C15_Witness ==
    /\ Returned
    /\ args.metric \notin KnownMetrics
    /\ ~SamePoint
    /\ returned.t = "root" /\ returned.r.s > 0

\* C16: a 'minkowski' call with pValue 1 returns the number the 'manhattan'
\* call returns, with pValue 2 the number the 'euclidean' call returns.
C16_MinkowskiSpecialCases ==
    (Returned /\ args.metric = "minkowski") =>
        /\ args.p = 1 =>
              SameValue(returned,
                        calculateDistance(args.x1, args.y1, args.x2, args.y2,
                                          "manhattan", args.p, args.w, args.h))
        /\ args.p = 2 =>
              SameValue(returned,
                        calculateDistance(args.x1, args.y1, args.x2, args.y2,
                                          "euclidean", args.p, args.w, args.h))

\* C16 witness: a 'minkowski' call with pValue 2 on two points that differ in
\* both coordinates has returned.
C16_Witness ==
    /\ Returned
    /\ args.metric = "minkowski" /\ args.p = 2
    /\ args.x1 # args.x2 /\ args.y1 # args.y2
    /\ returned.t = "root" /\ returned.k = 2

\* the square of a "root" result with k = 1 or 2
SquareOfRoot(v) == IF v.k = 1 THEN RatSquare(v.r) ELSE v.r

\* C17: a 'manhattan' call returns |x1 - x2| + |y1 - y2|; a 'euclidean' call
\* returns a d >= 0 with d * d = (x1 - x2)^2 + (y1 - y2)^2; for (0,0), (3,4)
\* they return 7 and 5.
C17_ManhattanEuclideanReference ==
    LET dx == args.x1 - args.x2
        dy == args.y1 - args.y2
        origin34 == <<args.x1, args.y1, args.x2, args.y2>> = <<0, 0, 3, 4>>
    IN  /\ (Returned /\ args.metric = "manhattan") =>
              /\ ValueIsFraction(returned, Rat(Abs(dx) + Abs(dy)))
              /\ origin34 => ValueIsFraction(returned, Rat(7))
        /\ (Returned /\ args.metric = "euclidean") =>
              /\ returned.t = "root" /\ returned.k \in {1, 2}
              /\ NonNegative(returned)
              /\ RatEq(SquareOfRoot(returned), Rat(dx * dx + dy * dy))
              /\ origin34 => ValueIsFraction(returned, Rat(5))

\* C17 witness: a 'manhattan' call on a point with negative coordinates and
\* one with positive coordinates has returned.
C17_Witness ==
    /\ Returned
    /\ args.metric = "manhattan"
    /\ <<args.x1, args.y1, args.x2, args.y2>> = <<80, -60, 3, 4>>
    /\ ValueIsFraction(returned, Rat(141))

(***************************************************************************)
(* Properties of the library's generators, under SpecGen.                  *)
(***************************************************************************)
GridReturned == genCall.fn = "createGridOfPoints" /\ generated.done

\* both coordinates of the point are numbers, neither NaN nor infinite
WellDefined(pt) == pt.x.t = "num" /\ pt.y.t = "num"

\* C18: createGridOfPoints with a single row or a single column raises no
\* error, so every point it returns has two finite numbers as coordinates.
C18_GridDegenerateWellDefined ==
    (GridReturned /\ (genCall.rows = 1 \/ genCall.cols = 1)) =>
        \A k \in DOMAIN generated.pts : WellDefined(generated.pts[k])

\* the number of different values among the numbers f[1], f[2], ...
DistinctValues(f) ==
    Cardinality({k \in DOMAIN f : \A l \in 1..(k - 1) : ~RatEq(f[l], f[k])})

\* C19: for rows, cols >= 2 createGridOfPoints returns rows * cols points,
\* row by row: the points of a column share their x, the points of a row
\* their y, x grows along a row and y from row to row; there are cols
\* different x and rows different y; the first point is (0.15 width,
\* 0.15 height), the last (0.85 width, 0.85 height).
C19_GridShape ==
    (GridReturned /\ genCall.rows >= 2 /\ genCall.cols >= 2) =>
        LET pts == generated.pts
            n == genCall.rows * genCall.cols
            col(k) == (k - 1) % genCall.cols
            row(k) == (k - 1) \div genCall.cols
            xs == [k \in 1..n |-> pts[k].x.v]
            ys == [k \in 1..n |-> pts[k].y.v]
        IN  /\ Len(pts) = n
            /\ \A k \in 1..n : WellDefined(pts[k])
            /\ \A k, l \in 1..n :
                  /\ col(k) = col(l) => RatEq(xs[k], xs[l])
                  /\ col(k) < col(l) => RatLess(xs[k], xs[l])
                  /\ row(k) = row(l) => RatEq(ys[k], ys[l])
                  /\ row(k) < row(l) => RatLess(ys[k], ys[l])
            /\ DistinctValues(xs) = genCall.cols
            /\ DistinctValues(ys) = genCall.rows
            /\ RatEq(xs[1], RatMul(Frac(15, 100), Rat(genCall.w)))
            /\ RatEq(ys[1], RatMul(Frac(15, 100), Rat(genCall.h)))
            /\ RatEq(xs[n], RatMul(Frac(85, 100), Rat(genCall.w)))
            /\ RatEq(ys[n], RatMul(Frac(85, 100), Rat(genCall.h)))

\* C19 witness: the grid of 3 rows and 4 columns has been returned.
C19_Witness ==
    /\ GridReturned
    /\ genCall.rows = 3 /\ genCall.cols = 4
    /\ Len(generated.pts) = 12

\* C20: createRegularPolygon, createCircleOfPoints and createRandomPoints
\* return n points when asked for n >= 1 and none when asked for n <= 0.
C20_GeneratorCardinality ==
    (/\ generated.done
     /\ genCall.fn \in {"createRegularPolygon", "createCircleOfPoints",
                        "createRandomPoints"}) =>
        Len(generated.pts) = (IF genCall.count >= 1 THEN genCall.count ELSE 0)

\* C20 witness: createCircleOfPoints asked for 5 points has returned 5.
C20_Witness ==
    /\ generated.done
    /\ genCall.fn = "createCircleOfPoints"
    /\ genCall.count = 5
    /\ Len(generated.pts) = 5

\* the point (0.1 size + r * 0.8 size) for the value r drawn
InsetBy(r, size) ==
    RatAdd(RatMul(Frac(1, 10), Rat(size)),
           RatMul(r, RatMul(Frac(8, 10), Rat(size))))

\* C21: the i-th point createRandomPoints returns is (0.1 width + r(2i) *
\* 0.8 width, 0.1 height + r(2i + 1) * 0.8 height) for the values r(0),
\* r(1), ... in [0, 1] drawn in that order, so that 0.1 width <= x <= 0.9
\* width and 0.1 height <= y <= 0.9 height.
C21_RandomMargins ==
    (generated.done /\ genCall.fn = "createRandomPoints") =>
        \A i \in 0..(Len(generated.pts) - 1) :
            LET pt == generated.pts[i + 1]
                rx == RandomValue(genCall.seed, 2 * i)
                ry == RandomValue(genCall.seed, 2 * i + 1)
            IN  /\ RatLeq(Rat(0), rx) /\ RatLeq(rx, Rat(1))
                /\ RatLeq(Rat(0), ry) /\ RatLeq(ry, Rat(1))
                /\ WellDefined(pt)
                /\ RatEq(pt.x.v, InsetBy(rx, genCall.w))
                /\ RatEq(pt.y.v, InsetBy(ry, genCall.h))
                /\ RatLeq(RatMul(Frac(1, 10), Rat(genCall.w)), pt.x.v)
                /\ RatLeq(pt.x.v, RatMul(Frac(9, 10), Rat(genCall.w)))
                /\ RatLeq(RatMul(Frac(1, 10), Rat(genCall.h)), pt.y.v)
                /\ RatLeq(pt.y.v, RatMul(Frac(9, 10), Rat(genCall.h)))

\* C21 witness: five points have been returned for 800 x 600, among them one
\* on the upper margin (value 0 drawn) and one on the right margin (value 1
\* drawn), and one whose two values drawn differ.
C21_Witness ==
    /\ generated.done /\ genCall.fn = "createRandomPoints"
    /\ genCall.w = DEFAULT_WIDTH /\ genCall.h = DEFAULT_HEIGHT
    /\ Len(generated.pts) = 5
    /\ \E k \in 1..5 : RatEq(generated.pts[k].y.v, Rat(60))
    /\ \E k \in 1..5 : RatEq(generated.pts[k].x.v, Rat(720))
    /\ RatEq(generated.pts[1].x.v, Rat(240))
    /\ RatEq(generated.pts[1].y.v, Rat(300))

\* the sum of the coordinates c of the points of q, as an integer
RECURSIVE TotalOf(_, _)
TotalOf(q, c) == IF q = <<>> THEN 0 ELSE q[1][c] + TotalOf(Tail(q), c)

CentroidReturned == genCall.fn = "getCentroid" /\ generated.done

\* C22: for a non-empty array of points [x, y] getCentroid returns [sum of
\* the x / n, sum of the y / n], and the call leaves the array as it was.
C22_Centroid ==
    /\ [](CentroidReturned /\ Len(genCall.points) >= 1 =>
            LET n == Len(genCall.points)
                c == generated.pts
            IN  /\ Len(c) = 2
                /\ c[1].t = "num" /\ c[2].t = "num"
                /\ RatEq(c[1].v, Frac(TotalOf(genCall.points, 1), n))
                /\ RatEq(c[2].v, Frac(TotalOf(genCall.points, 2), n)))
    /\ [][genCall.fn = "getCentroid" => genCall'.points = genCall.points]_vars

\* C22 witness: getCentroid([[0, 0], [4, 0], [2, 4]]) has returned [2, 4/3],
\* and the array still holds the three points.
C22_Witness ==
    /\ CentroidReturned
    /\ genCall.points = <<(<<0, 0>>), (<<4, 0>>), (<<2, 4>>)>>
    /\ RatEq(generated.pts[1].v, Rat(2))
    /\ RatEq(generated.pts[2].v, Frac(4, 3))

(***************************************************************************)
(* Properties of the page's events.                                        *)
(***************************************************************************)
\* the number of sites of each shape the selector offers
SitesOffered(shape) ==
    CASE shape = "triangle" -> 3
      [] shape = "square" -> 4
      [] shape = "pentagon" -> 5
      [] shape = "hexagon" -> 6
      [] shape = "dodecagon" -> 12
      [] shape = "grid" -> 16
      [] shape = "random" -> 10

\* C23: while the selector shows a shape that was applied (a click on the
\* canvas or on clear puts it back to 'none'), the site list holds that
\* shape's sites: triangle 3, square 4, pentagon 5, hexagon 6, dodecagon 12,
\* grid 16, random 10.
C23_ShapeSites ==
    shapeValue # "none" => Len(points) = SitesOffered(shapeValue)

\* C24: after every event the regions are the classification of the current
\* site list, metric, pValue and order, and nothing else: no region and no
\* sample of an earlier run is left.
C24_RecomputedFromScratch ==
    cells = Classify(points, distanceMetric, pValue, voronoiOrder, width, height)

\* C24 witness: three sites placed by clicks, classified by the first-order
\* run under the manhattan metric after a resize: regions had been drawn
\* before the last events.
C24_Witness ==
    /\ Len(points) = 3 /\ shapeValue = "none"
    /\ distanceMetric = "manhattan"
    /\ rectH # height
    /\ ran = "first"
    /\ cells # NoCells

\* C25: a clear event and an apply-shape event leave the order at 1, whatever
\* it was before; a clear event also leaves the site list empty and the
\* shape selector on 'none'.
C25_OrderReset ==
    /\ [][(ClearClick \/ ApplyShapeClick) =>
            (orderValue' = <<"1">> /\ voronoiOrder' = Num(1))]_vars
    /\ [][ClearClick => (points' = <<>> /\ shapeValue' = "none")]_vars

\* C25 witness: the grid has been applied and the order is 1, with room for
\* orders up to 15.
C25_Witness ==
    /\ shapeValue = "grid" /\ Len(points) = 16
    /\ orderMax = 15
    /\ orderValue = <<"1">> /\ voronoiOrder = Num(1)

\* C26: an apply-shape event with the selector on 'none' leaves the site
\* list as it was: the same sites at the same indices.
C26_ApplyNoneKeepsSites ==
    [][(ApplyShapeClick /\ shapeValue' = "none") => points' = points]_vars

(***************************************************************************)
(* The page's calculateDistance against the library's, under SpecDist.     *)
(***************************************************************************)
\* a distance of the page script written as a result of the library
AsResult(d) ==
    CASE d.c = "num" -> RootValue(d.p, FALSE, Rat(d.r))
      [] d.c = "inf" -> Infinite

\* C27: for each of the four metric kinds of the selector, and the same
\* points, pValue and canvas, the page's calculateDistance returns the value
\* the library's calculateDistance returns.
C27_PageAgreesWithLibrary ==
    (Returned /\ args.metric \in {"euclidean", "manhattan", "minkowski", "hilbert"}) =>
        SameValue(returned,
                  AsResult(scriptCalculateDistance(args.metric, Num(args.p),
                                                   args.x1, args.y1,
                                                   args.x2, args.y2)))

(***************************************************************************)
(* The first-order classifier over all the p-value control delivers.       *)
(***************************************************************************)
\* C28: when the first-order classifier has run, under any metric and any
\* pValue read from the p-value control, every lattice sample is listed once
\* under exactly one key, and that key is the index of a site.
C28_FirstOrderPartition ==
    ran = "first" =>
        \A s \in FirstOrderSamples :
            /\ Cardinality(KeysOf(s)) = 1
            /\ \A k \in KeysOf(s) :
                  /\ Occurrences(k, s) = 1
                  /\ \E i \in SiteIndices : k = NumberToString(i)

\* the key the higher-order procedure gives the sample s when run with
\* order 1 on the current sites and metric
OrderOneKey(s) ==
    NearestPoints(SortedDistances(points, distanceMetric, pValue, s[1], s[2]), 1)

\* C29: the site the first-order scan has selected for a lattice sample is
\* the site the higher-order procedure selects for it when run with order 1
\* (stable sort by distance, first index), equidistant sites included.
C29_OrderOneConsistent ==
    ran = "first" =>
        \A s \in FirstOrderSamples : KeysOf(s) = {OrderOneKey(s)}

(***************************************************************************)
(* The canvas after a resize.                                              *)
(***************************************************************************)
\* the samples listed under some key
SamplesDrawn == UNION {SeqRange(cells[k]) : k \in DOMAIN cells}

\* C30: the classification samples the lattice over the current canvas
\* (every sample drawn lies within the current width and height, and the
\* first-order run leaves out no sample of the current canvas whose
\* distances are numbers), and an applied grid is centred on the current
\* canvas.
C30_LatticeFollowsCanvas ==
    /\ [](ran \in {"first", "higher"} =>
            \A s \in SamplesDrawn : s[1] < rectW /\ s[2] < rectH)
    /\ [](ran = "first" =>
            \A s \in SeqRange(Lattice(rectW, rectH, FirstOrderResolution)) :
                NumericAt(s) => s \in SamplesDrawn)
    /\ [][(ApplyShapeClick /\ shapeValue' = "grid") =>
            /\ points'[1].x + points'[16].x = rectW * SubPx
            /\ points'[1].y + points'[16].y = rectH * SubPx]_vars

====
